---------------------------- MODULE Spec2Model ----------------------------
(***************************************************************************)
(* Model of src/matrix.py: Row and Matrix over exact rationals             *)
(* (fractions.Fraction), the three elimination algorithms det, ref and     *)
(* rref, and what they print at verbose levels 0, 1 and 2.                 *)
(*                                                                         *)
(* A Fraction is the pair <<numerator, denominator>> in lowest terms with  *)
(* a positive denominator, as fractions.Fraction keeps it.  A Row is a     *)
(* sequence of Fractions and a Matrix a sequence of Rows.  Python indices  *)
(* start at 0 and the model's at 1: row r<i> of the source is row i+1      *)
(* here, and Row.pivot()'s -1 ("no pivot") is NoPivot = 0 here.            *)
(***************************************************************************)
EXTENDS Integers, Sequences, FiniteSets

VARIABLES
    A,        \* the Matrix the caller constructed (its rows)
    self,     \* the rows of the receiver of the last call, as they are now
    arg,      \* the rows of that receiver when the call began
    origin,   \* how that receiver came to be: "input", "ref" or "rref"
    op,       \* the last call: "none", "det", "ref" or "rref"
    verbose,  \* its verbose argument
    new,      \* its working matrix `new` (what ref and rref return)
    ret,      \* what det returned, NoRet when it returned nothing
    err,      \* the exception that ended the call, "none" when it returned
    out,      \* what the call printed, in order
    ops       \* the row operations that changed `new`, in order

vars == <<A, self, arg, origin, op, verbose, new, ret, err, out, ops>>

----------------------------------------------------------------------------
(* Bounds of the model and the one constant of the program's environment.  *)

\* The largest entry of the matrices of at most 2 x 2 (see Inputs, which
\* also fixes the larger shapes the model constructs).
MaxVal == 2
\* The default max_denominator of Fraction.limit_denominator().
MaxDenominator == 1000000

\* An integer whose reciprocal limit_denominator() cannot represent.
Big == 2 * MaxDenominator + 1

----------------------------------------------------------------------------
(* fractions.Fraction                                                      *)

Abs(x) == IF x < 0 THEN -x ELSE x

RECURSIVE GCD(_, _)
GCD(a, b) == IF b = 0 THEN a ELSE GCD(b, a % b)

\* Fraction(n, d) for d # 0: lowest terms, positive denominator.
Frac(n, d) ==
    LET g == GCD(Abs(n), Abs(d))
        s == IF d < 0 THEN -1 ELSE 1
    IN  <<(s * n) \div g, (s * d) \div g>>

\* Fraction(n) of an integer n
FromInt(n) == <<n, 1>>
Zero == FromInt(0)
One == FromInt(1)

FNeg(x) == <<-x[1], x[2]>>
FAdd(x, y) == Frac(x[1] * y[2] + y[1] * x[2], x[2] * y[2])
FMul(x, y) == Frac(x[1] * y[1], x[2] * y[2])
\* 1 / x and x / y; Python raises ZeroDivisionError for a zero divisor,
\* which every caller below tests for before it uses these.
FInv(x) == Frac(x[2], x[1])
FDiv(x, y) == Frac(x[1] * y[2], x[2] * y[1])

\* Fraction.limit_denominator(max_denominator = 1000000): the closest
\* fraction whose denominator is at most MaxDenominator.
RECURSIVE LimitLoop(_, _, _, _, _, _, _)
LimitLoop(den, p0, q0, p1, q1, n, d) ==
    LET a  == n \div d
        q2 == q0 + a * q1
    IN  IF q2 > MaxDenominator
        THEN LET k == (MaxDenominator - q0) \div q1
             IN  IF 2 * d * (q0 + k * q1) <= den
                 THEN Frac(p1, q1)
                 ELSE Frac(p0 + k * p1, q0 + k * q1)
        ELSE LimitLoop(den, p1, q1, p0 + a * p1, q2, d, n - a * d)

LimitDenominator(x) ==
    IF x[2] <= MaxDenominator THEN x
    ELSE LimitLoop(x[2], 0, 1, 1, 0, x[1], x[2])

\* num_to_string(n) = str(Fraction(n).limit_denominator()).  The string of a
\* Fraction in lowest terms ("3", "-1/3") names exactly that Fraction, so the
\* model keeps the Fraction the string names.
num_to_string(n) == LimitDenominator(n)

----------------------------------------------------------------------------
(* Row                                                                     *)

RowNeg(r) == [c \in 1..Len(r) |-> FNeg(r[c])]
RowAdd(r, s) == [c \in 1..Len(r) |-> FAdd(r[c], s[c])]
RowMul(r, k) == [c \in 1..Len(r) |-> FMul(r[c], k)]
\* Row.__truediv__: self * (1 / other)
RowDiv(r, k) == RowMul(r, FInv(k))

\* Eliminate with the sign of the multiple lost: `target += source * ...`.
EliminateWrongSign(target, source, col, pv) ==
    RowAdd(target, RowDiv(RowMul(source, target[col]), pv))

\* `target += -source * target[col] / pv`: the row that det and rref store.
Eliminate(target, source, col, pv) ==
    RowAdd(target, RowDiv(RowMul(RowNeg(source), target[col]), pv))

\* `target += -source * target[col]`: the row that ref stores.
EliminateNormalised(target, source, col) ==
    RowAdd(target, RowMul(RowNeg(source), target[col]))

NoPivot == 0

\* Row.pivot(): the first index whose entry is not zero.
pivot(r) ==
    LET nz == {c \in 1..Len(r) : r[c] # Zero}
    IN  IF nz = {} THEN NoPivot ELSE CHOOSE c \in nz : \A e \in nz : c <= e

is_zero(r) == \A c \in 1..Len(r) : r[c] = Zero

----------------------------------------------------------------------------
(* Matrix                                                                  *)

\* Matrix.dim(): (len(self), len(self.__rows[0]))
dim(m) == <<Len(m), Len(m[1])>>

\* The list `rows` with rows i and j exchanged (Matrix.swap_rows).
Swapped(rows, i, j) == [rows EXCEPT ![i] = rows[j], ![j] = rows[i]]

\* deepcopy as `return self`: the copy's list of rows is the receiver's.
deepcopy_shared(rows) == [rows |-> rows, own |-> FALSE]

\* Matrix.__deepcopy__ returns Matrix(self.__rows), and Matrix.__init__ makes
\* list(Row(z) for z in x), where Row.__init__ makes list(x): a new list of
\* new Rows, each holding a new list of the same numbers.  `own` says that
\* the copy's list of rows is not the receiver's list.
deepcopy(rows) == [rows |-> rows, own |-> TRUE]

(***************************************************************************)
(* What a call prints.  Every printed item is a record of one shape:       *)
(*   "label"  the line "Initial: "                                         *)
(*   "snap"   print(new): m is the matrix as printed, every entry through  *)
(*            num_to_string                                                *)
(*   "swap"   "r{a} <-> r{b}"                                              *)
(*   "scale"  "r{a} *= {f}"                                                *)
(*   "comb"   "r{a} += r{b} * {f}"                                         *)
(***************************************************************************)
Item(kind, a, b, f, m) == [kind |-> kind, a |-> a, b |-> b, f |-> f, m |-> m]

Label == Item("label", 0, 0, Zero, <<>>)
\* Matrix.__str__
MatStr(rows) ==
    [r \in 1..Len(rows) |-> [c \in 1..Len(rows[r]) |-> num_to_string(rows[r][c])]]
Snapshot(rows) == Item("snap", 0, 0, Zero, MatStr(rows))
SwapLine(i, k) == Item("swap", i, k, Zero, <<>>)
ScaleLine(i, f) == Item("scale", i, 0, num_to_string(f), <<>>)
CombLine(j, i, f) == Item("comb", j, i, num_to_string(f), <<>>)

(***************************************************************************)
(* The state of a call in progress:                                        *)
(*   new   the rows of the working matrix `new`                            *)
(*   recv  the rows of the receiver `self`                                 *)
(*   own   whether new's list of rows is its own (not the receiver's)      *)
(*   neg   det's running sign                                              *)
(*   out   what was printed so far                                         *)
(*   ops   the operations that changed `new` so far (kind, rows)           *)
(*   err   the exception raised, "none" while running                      *)
(***************************************************************************)
\* Sequencing: F applied to the value of x, `x` being one statement's
\* result and F the statements after it.
Then(x, F(_)) == CHOOSE r \in {F(y) : y \in {x}} : TRUE

Raise(st, e) == [st EXCEPT !.err = e]
Say(st, items) == [st EXCEPT !.out = st.out \o items]

\* One entry of ops: the operation and the rows it names.
Did(kind, a, b) == [kind |-> kind, a |-> a, b |-> b]

\* A store into new's list of rows reaches the receiver's rows exactly when
\* the two are one list.
Store(st, rows, what) ==
    [st EXCEPT !.new  = rows,
               !.recv = IF st.own THEN st.recv ELSE rows,
               !.ops  = IF rows = st.new THEN st.ops ELSE Append(st.ops, what)]

\* new.swap_rows(i, k)
swap_rows(st, i, k) == Store(st, Swapped(st.new, i, k), Did("swap", i, k))
\* new.__rows[j] = row  (the assignment half of `+=` and `/=`)
SetRow(st, j, row, what) == Store(st, [st.new EXCEPT ![j] = row], what)

\* The state after `new = deepcopy(self)` and the "Initial: " printing.
PrintsInitial(v) == v > 0
Begin(rows, v) ==
    LET c == deepcopy(rows)
    IN  [new |-> c.rows, recv |-> rows, own |-> c.own, neg |-> 1,
         out |-> IF PrintsInitial(v) THEN <<Label, Snapshot(c.rows)>> ELSE <<>>,
         ops |-> <<>>, err |-> "none"]

\* The end-of-iteration test written `verbose > 1`, and written `verbose >= 1`.
PrintsIterationAbove(v) == v > 1
PrintsIterationFrom(v) == v >= 1

\* `if verbose > 1` guards every operation line and the snapshot after it;
\* `if verbose == 1` guards the snapshot at the end of an outer iteration.
PrintsOperations(v) == v > 1
PrintsIteration(v) == v = 1

----------------------------------------------------------------------------
(* Matrix.det                                                              *)

\* `if new.dim()[1] != new.dim()[1]`: the test that guards the ValueError.
not_square(d) == d[2] # d[2]

NoRow == 0

\* The swap that leaves the sign alone.
FlipForgotten(neg) == neg

\* `neg *= -1`
Flip(neg) == -neg

\* The scan without its `else: continue`: after a loop that never breaks, k is
\* the last row.
FindKNoContinue(rows, i) ==
    LET nz == {k \in i..Len(rows) : rows[k][i] # Zero}
    IN  IF nz = {} THEN Len(rows) ELSE CHOOSE k \in nz : \A e \in nz : k <= e

\* `for k in range(i, len(new)): if new[k][i] != 0: break`, NoRow when the
\* loop ends without a break (the `else: continue`).
FindK(rows, i) ==
    LET nz == {k \in i..Len(rows) : rows[k][i] # Zero}
    IN  IF nz = {} THEN NoRow ELSE CHOOSE k \in nz : \A e \in nz : k <= e

\* `for j in range(i + 1, len(new))`, one round per j.
RECURSIVE DetInner(_, _, _, _, _)
DetInner(st, i, j, pv, v) ==
    IF j > Len(st.new) THEN st
    ELSE LET op_is_not_useless == st.new[j][i] # Zero /\ ~is_zero(st.new[i])
             shows == PrintsOperations(v) /\ op_is_not_useless
         IN  IF pv = Zero THEN Raise(st, "ZeroDivisionError")
             ELSE
    Then(IF shows THEN Say(st, <<CombLine(j, i, FDiv(FNeg(st.new[j][i]), pv))>>) ELSE st,
         LAMBDA s1 :
    Then(SetRow(s1, j, Eliminate(s1.new[j], s1.new[i], i, pv), Did("comb", j, i)),
         LAMBDA s2 :
    Then(IF shows THEN Say(s2, <<Snapshot(s2.new)>>) ELSE s2,
         LAMBDA s3 :
    DetInner(s3, i, j + 1, pv, v))))

\* `for i in range(len(new))`, one round per i.
RECURSIVE DetOuter(_, _, _)
DetOuter(st, i, v) ==
    IF i > Len(st.new) THEN st
    ELSE IF i > Len(st.new[i]) THEN Raise(st, "IndexError")   \* new[k][i], k = i
    ELSE LET k == FindK(st.new, i)
         IN  IF k = NoRow THEN DetOuter(st, i + 1, v)
             ELSE
    Then(IF k # i THEN [swap_rows(st, i, k) EXCEPT !.neg = Flip(st.neg)] ELSE st,
         LAMBDA s1 :
    Then(IF PrintsOperations(v) /\ k # i
         THEN Say(s1, <<SwapLine(i, k), Snapshot(s1.new)>>) ELSE s1,
         LAMBDA s2 :
    Then(DetInner(s2, i, i + 1, s2.new[i][i], v),
         LAMBDA s3 :
    IF s3.err # "none" THEN s3
    ELSE
    Then(IF PrintsIteration(v) THEN Say(s3, <<Snapshot(s3.new)>>) ELSE s3,
         LAMBDA s4 :
    DetOuter(s4, i + 1, v)))))

\* reduce(lambda a, c: a * new[c][c], range(len(new)), 1)
RECURSIVE DiagProduct(_, _)
DiagProduct(rows, c) ==
    IF c = 0 THEN One ELSE FMul(DiagProduct(rows, c - 1), rows[c][c])

NoRet == <<>>
Returned(st, value) ==
    [new |-> st.new, recv |-> st.recv, out |-> st.out, ops |-> st.ops,
     err |-> st.err, ret |-> IF st.err = "none" THEN value ELSE NoRet]

det(rows, v) ==
    IF not_square(dim(deepcopy(rows).rows))
    THEN Then(Raise(Begin(rows, 0), "ValueError"), LAMBDA st : Returned(st, NoRet))
    ELSE
    Then(Begin(rows, v),
         LAMBDA s0 :
    Then(DetOuter(s0, 1, v),
         LAMBDA st :
    Returned(st, IF st.err # "none" THEN NoRet
                 ELSE FMul(FromInt(st.neg), DiagProduct(st.new, Len(st.new))))))

----------------------------------------------------------------------------
(* Matrix.ref                                                              *)

\* The first row from i on that has a pivot, whatever its pivot column.
FirstPivotAnyRow(rows, i) ==
    LET has == {r \in i..Len(rows) : pivot(rows[r]) # NoPivot}
    IN  IF has = {} THEN <<NoPivot, NoRow>>
        ELSE LET r == CHOOSE r \in has : \A q \in has : r <= q
             IN  <<pivot(rows[r]), r>>

\* The head of `pivots`: the (pivot, row) pairs of rows i.. that have a
\* pivot, sorted by pivot and then by row.  <<NoPivot, NoRow>> when the list
\* is empty.
FirstPivot(rows, i) ==
    LET has == {r \in i..Len(rows) : pivot(rows[r]) # NoPivot}
        Before(r, q) == \/ pivot(rows[r]) < pivot(rows[q])
                        \/ pivot(rows[r]) = pivot(rows[q]) /\ r <= q
    IN  IF has = {} THEN <<NoPivot, NoRow>>
        ELSE LET r == CHOOSE r \in has : \A q \in has : Before(r, q)
             IN  <<pivot(rows[r]), r>>

\* `for j in range(i + 1, len(new))`, one round per j.
RECURSIVE RefInner(_, _, _, _, _)
RefInner(st, i, j, pivot_ind, v) ==
    IF j > Len(st.new) THEN st
    ELSE LET op_is_not_useless == st.new[j][pivot_ind] # Zero /\ ~is_zero(st.new[i])
             shows == PrintsOperations(v) /\ op_is_not_useless
         IN
    Then(IF shows THEN Say(st, <<CombLine(j, i, FNeg(st.new[j][pivot_ind]))>>) ELSE st,
         LAMBDA s1 :
    Then(SetRow(s1, j, EliminateNormalised(s1.new[j], s1.new[i], pivot_ind), Did("comb", j, i)),
         LAMBDA s2 :
    Then(IF shows THEN Say(s2, <<Snapshot(s2.new)>>) ELSE s2,
         LAMBDA s3 :
    RefInner(s3, i, j + 1, pivot_ind, v))))

\* `for i in range(len(new))`, one round per i.
RECURSIVE RefOuter(_, _, _)
RefOuter(st, i, v) ==
    IF i > Len(st.new) THEN st
    ELSE
    Then(FirstPivot(st.new, i),
         LAMBDA first :
    LET pivot_ind == first[1]
        pivot_row == first[2]
    IN  IF pivot_row = NoRow \/ pivot_ind = NoPivot THEN RefOuter(st, i + 1, v)
        ELSE LET pv == st.new[pivot_row][pivot_ind] IN
    Then(swap_rows(st, i, pivot_row),
         LAMBDA s1 :
    Then(IF PrintsOperations(v) /\ pivot_row # i
         THEN Say(s1, <<SwapLine(i, pivot_row), Snapshot(s1.new)>>) ELSE s1,
         LAMBDA s2 :
    IF pv = Zero THEN Raise(s2, "ZeroDivisionError")
    ELSE
    Then(SetRow(s2, i, RowDiv(s2.new[i], pv), Did("scale", i, 0)),
         LAMBDA s3 :
    Then(IF PrintsOperations(v) /\ pv # One
         THEN Say(s3, <<ScaleLine(i, FInv(pv)), Snapshot(s3.new)>>) ELSE s3,
         LAMBDA s4 :
    Then(RefInner(s4, i, i + 1, pivot_ind, v),
         LAMBDA s5 :
    Then(IF PrintsIteration(v) THEN Say(s5, <<Snapshot(s5.new)>>) ELSE s5,
         LAMBDA s6 :
    RefOuter(s6, i + 1, v))))))))

RefRun(rows, v) == Then(Begin(rows, v), LAMBDA s0 : RefOuter(s0, 1, v))

ref(rows, v) == Then(RefRun(rows, v), LAMBDA st : Returned(st, NoRet))

----------------------------------------------------------------------------
(* Matrix.rref                                                             *)

\* The range one row short: `for j in range(0, i - 1)`.
AboveRowsShort(i) == i - 2

\* `for j in range(0, i)`: the last row of the range.
AboveRows(i) == i - 1

\* `for j in range(0, i)`, one round per j.
RECURSIVE RrefInner(_, _, _, _, _, _)
RrefInner(st, i, j, pivot_pos, pv, v) ==
    IF j > AboveRows(i) THEN st
    ELSE LET op_is_not_useless == st.new[j][pivot_pos] # Zero /\ ~is_zero(st.new[i])
             shows == PrintsOperations(v) /\ op_is_not_useless
         IN  IF pv = Zero THEN Raise(st, "ZeroDivisionError")
             ELSE
    Then(IF shows THEN Say(st, <<CombLine(j, i, FDiv(FNeg(st.new[j][pivot_pos]), pv))>>) ELSE st,
         LAMBDA s1 :
    Then(SetRow(s1, j, Eliminate(s1.new[j], s1.new[i], pivot_pos, pv), Did("comb", j, i)),
         LAMBDA s2 :
    Then(IF shows THEN Say(s2, <<Snapshot(s2.new)>>) ELSE s2,
         LAMBDA s3 :
    RrefInner(s3, i, j + 1, pivot_pos, pv, v))))

\* `for i in range(1, len(new))`: from the second row on.
RECURSIVE RrefOuter(_, _, _)
RrefOuter(st, i, v) ==
    IF i > Len(st.new) THEN st
    ELSE LET pivot_pos == pivot(st.new[i])
         IN  IF pivot_pos = NoPivot THEN RrefOuter(st, i + 1, v)
             ELSE
    Then(RrefInner(st, i, 1, pivot_pos, st.new[i][pivot_pos], v),
         LAMBDA s1 :
    IF s1.err # "none" THEN s1
    ELSE
    Then(IF PrintsIteration(v) THEN Say(s1, <<Snapshot(s1.new)>>) ELSE s1,
         LAMBDA s2 :
    RrefOuter(s2, i + 1, v)))

rref(rows, v) ==
    Then(RefRun(rows, v),
         LAMBDA st :
    IF st.err # "none" THEN Returned(st, NoRet)
    ELSE Then(RrefOuter(st, 2, v), LAMBDA s1 : Returned(s1, NoRet)))

----------------------------------------------------------------------------
(* The callers: a Matrix is constructed, and det, ref and rref are called  *)
(* on it, or rref on the Matrix the last call returned.                    *)

\* The r x c matrices with integer entries lo..hi, as Matrix(...) accepts
\* them: at least one row, every row of one length.
MatricesOf(r, c, lo, hi) == [1..r -> [1..c -> {FromInt(x) : x \in lo..hi}]]

Inputs ==
    \* every matrix of at most 2 x 2 over -1..MaxVal
    UNION {MatricesOf(r, c, -1, MaxVal) : r \in 1..2, c \in 1..2}
    \* every 2 x 3, 3 x 2 and 3 x 3 matrix over 0..1
    \cup MatricesOf(2, 3, 0, 1) \cup MatricesOf(3, 2, 0, 1) \cup MatricesOf(3, 3, 0, 1)
    \* one row holding an entry too large for limit_denominator
    \cup {<<<<FromInt(Big)>>>>, <<<<FromInt(Big), One>>>>, <<<<Zero, FromInt(Big)>>>>}

Verbosity == 0..2

Init ==
    /\ A \in Inputs
    /\ self = A
    /\ arg = A
    /\ origin = "input"
    /\ op = "none"
    /\ verbose = 0
    /\ new = <<>>
    /\ ret = NoRet
    /\ err = "none"
    /\ out = <<>>
    /\ ops = <<>>

\* The call `name`(verbose = v) on the receiver that had the rows `rows` and
\* came to be by `from` has ended as r says.
Ended(name, v, rows, from, r) ==
    /\ self' = r.recv
    /\ arg' = rows
    /\ origin' = from
    /\ op' = name
    /\ verbose' = v
    /\ new' = r.new
    /\ ret' = r.ret
    /\ err' = r.err
    /\ out' = r.out
    /\ ops' = r.ops

\* A.det(v), A.ref(v) and A.rref(v) for the constructed Matrix A.
Det(v) ==
    \E r \in {det(A, v)} : Ended("det", v, A, "input", r) /\ A' = r.recv

Ref(v) ==
    \E r \in {ref(A, v)} : Ended("ref", v, A, "input", r) /\ A' = r.recv

Rref(v) ==
    \E r \in {rref(A, v)} : Ended("rref", v, A, "input", r) /\ A' = r.recv

\* new.rref(v) for the Matrix `new` that the last call (ref or rref) returned.
RrefOfResult(v) ==
    /\ op \in {"ref", "rref"}
    /\ err = "none"
    /\ \E r \in {rref(new, v)} : Ended("rref", v, new, op, r) /\ UNCHANGED A

Next ==
    \E v \in Verbosity :
        \/ Det(v)
        \/ Ref(v)
        \/ Rref(v)
        \/ RrefOfResult(v)

Spec == Init /\ [][Next]_vars

----------------------------------------------------------------------------
(* Vocabulary of the properties                                            *)

IsSquare(m) == Len(m) = Len(m[1])

\* What the call `name`(verbose = v) does on a receiver with the rows `rows`.
Run(name, rows, v) ==
    CASE name = "det"  -> det(rows, v)
      [] name = "ref"  -> ref(rows, v)
      [] name = "rref" -> rref(rows, v)

Called == op # "none"

\* The index of the first non-zero entry of a row, 0 for a zero row.
Leading(r) ==
    IF \A c \in 1..Len(r) : r[c] = Zero THEN 0
    ELSE CHOOSE c \in 1..Len(r) : r[c] # Zero /\ \A e \in 1..(c - 1) : r[e] = Zero

\* Row-echelon form with pivots 1: a non-zero row lies below a non-zero row
\* whose leading entry is strictly to the left, and leading entries are 1.
InEchelonForm(m) ==
    /\ \A r \in 2..Len(m) :
          Leading(m[r]) # 0 => Leading(m[r - 1]) # 0 /\ Leading(m[r - 1]) < Leading(m[r])
    /\ \A r \in 1..Len(m) : Leading(m[r]) # 0 => m[r][Leading(m[r])] = One

\* Every pivot column is zero outside the pivot's own row.
PivotColumnsClear(m) ==
    \A r \in 1..Len(m) :
        Leading(m[r]) # 0 => \A q \in 1..Len(m) : q # r => m[q][Leading(m[r])] = Zero

\* The matrix m without its first row and without column c.
Minor(m, c) ==
    [r \in 1..(Len(m) - 1) |->
        [e \in 1..(Len(m) - 1) |-> IF e < c THEN m[r + 1][e] ELSE m[r + 1][e + 1]]]

\* The determinant by cofactor expansion along the first row.
RECURSIVE Cofactors(_, _)
RECURSIVE Determinant(_)
Cofactors(m, c) ==
    IF c = 0 THEN Zero
    ELSE FAdd(Cofactors(m, c - 1),
              FMul(FMul(FromInt(IF c % 2 = 1 THEN 1 ELSE -1), m[1][c]),
                   Determinant(Minor(m, c))))
Determinant(m) == IF Len(m) = 1 THEN m[1][1] ELSE Cofactors(m, Len(m))

HasZeroRow(m) == \E r \in 1..Len(m) : \A c \in 1..Len(m[r]) : m[r][c] = Zero
HasEqualRows(m) == \E r, q \in 1..Len(m) : r # q /\ m[r] = m[q]

\* Whether the call changed its working matrix by an operation of this kind
\* (ops lists exactly the operations that changed it).
Performed(kind) == \E x \in 1..Len(ops) : ops[x].kind = kind

\* The snapshots printed, in order.
Snaps(items) == SelectSeq(items, LAMBDA it : it.kind = "snap")
Range(q) == {q[x] : x \in 1..Len(q)}

\* Whether p is q with some items left out.
RECURSIVE IsSubseqFrom(_, _, _, _)
IsSubseqFrom(p, x, q, y) ==
    IF x > Len(p) THEN TRUE
    ELSE IF y > Len(q) THEN FALSE
    ELSE IF p[x] = q[y] THEN IsSubseqFrom(p, x + 1, q, y + 1)
    ELSE IsSubseqFrom(p, x, q, y + 1)
IsSubseq(p, q) == IsSubseqFrom(p, 1, q, 1)

\* The operation lines of `items` applied in order to `rows`, each with the
\* factor the line shows.
RECURSIVE Replay(_, _, _)
Replay(items, x, rows) ==
    IF x > Len(items) THEN rows
    ELSE LET it == items[x]
         IN  Replay(items, x + 1,
                CASE it.kind = "swap"  -> Swapped(rows, it.a, it.b)
                  [] it.kind = "scale" -> [rows EXCEPT ![it.a] = RowMul(rows[it.a], it.f)]
                  [] it.kind = "comb"  ->
                        [rows EXCEPT ![it.a] = RowAdd(rows[it.a], RowMul(rows[it.b], it.f))]
                  [] OTHER -> rows)

----------------------------------------------------------------------------
(* C1.  det of a square matrix is its determinant (cofactor expansion);    *)
(* so it is zero for a matrix with a zero row or two equal rows, and       *)
(* exchanging two rows of the matrix negates it.                           *)
DetIsDeterminant ==
    (op = "det" /\ IsSquare(arg)) =>
        /\ err = "none"
        /\ ret = Determinant(arg)
        /\ (HasZeroRow(arg) \/ HasEqualRows(arg)) => ret = Zero
        /\ \A p, q \in 1..Len(arg) :
              p < q => det(Swapped(arg, p, q), 0).ret = FNeg(ret)

\* det of a 3 x 3 matrix that took a row swap and is not zero.
DetWitness ==
    op = "det" /\ IsSquare(arg) /\ Len(arg) = 3 /\ Performed("swap") /\ Performed("comb") /\ ret # Zero

(* C2.  ref returns a matrix in row-echelon form: pivot columns strictly   *)
(* increase down the non-zero rows, zero rows are at the bottom, and every *)
(* pivot entry is 1.                                                       *)
RefIsEchelon ==
    op = "ref" => err = "none" /\ dim(new) = dim(arg) /\ InEchelonForm(new)

\* ref of a three-row matrix that swapped, scaled and combined rows and has
\* a zero row.
RefWitness ==
    /\ op = "ref" /\ Len(arg) = 3
    /\ Performed("swap") /\ Performed("scale") /\ Performed("comb")
    /\ HasZeroRow(new) /\ ~HasZeroRow(arg)

(* C3.  rref returns a matrix in row-echelon form with pivots 1 in which   *)
(* every pivot column is zero in every other row, above and below.         *)
RrefIsReduced ==
    op = "rref" => err = "none" /\ InEchelonForm(new) /\ PivotColumnsClear(new)

\* rref that cleared an entry above a pivot: a row was combined into a row
\* above it.
RrefWitness ==
    /\ op = "rref" /\ Len(arg) = 3
    /\ \E x \in 1..Len(ops) : ops[x].kind = "comb" /\ ops[x].a < ops[x].b

(* C4.  det of a matrix that is not square fails with the ValueError of    *)
(* the dimension test, before any row operation, and returns nothing.      *)
DetRejectsNonSquare ==
    (op = "det" /\ ~IsSquare(arg)) => err = "ValueError" /\ ret = NoRet /\ ops = <<>>

(* C5.  After every call, also one that ended in an exception, the         *)
(* receiver's rows are what they were before the call.                     *)
ReceiverUnchanged ==
    /\ self = arg
    /\ origin = "input" => A = arg

\* A call that changed its working matrix and then ended in an exception.
ReceiverWitness == op = "det" /\ err = "IndexError" /\ Performed("swap") /\ Performed("comb")

(* C6.  No call divides by zero.                                           *)
NoDivisionByZero == err # "ZeroDivisionError"

\* An rref that divided a row by the pivot 2 and then cleared the entry above
\* a pivot with a factor that is not an integer.
DivisionWitness ==
    /\ op = "rref" /\ verbose = 2 /\ err = "none"
    /\ \E x \in 1..Len(out) : out[x].kind = "scale" /\ out[x].f = <<1, 2>>
    /\ \E x \in 1..Len(out) : out[x].kind = "comb" /\ out[x].a < out[x].b /\ out[x].f[2] > 1

(* C7.  rref of a matrix that rref returned is that matrix, entry for      *)
(* entry and row for row.                                                  *)
RrefIdempotent ==
    (op = "rref" /\ origin = "rref") => err = "none" /\ new = arg

\* rref called on the three-row result of an rref that changed its input.
IdempotentWitness ==
    op = "rref" /\ origin = "rref" /\ Len(arg) = 3 /\ arg # A /\ ~HasZeroRow(arg)

(* C8.  At verbose level 2 the operation lines, applied in the order       *)
(* printed to the receiver's matrix, give the final working matrix.        *)
ReplayReproduces ==
    (Called /\ verbose = 2) => Replay(out, 1, arg) = new

(* C9 as stated.  At verbose level 1, det and ref print one snapshot per   *)
(* outer iteration after the initial one: n of them for n rows.            *)
SnapshotEveryIteration ==
    (verbose = 1 /\ err = "none" /\ (op = "ref" \/ (op = "det" /\ IsSquare(arg)))) =>
        Len(Snaps(out)) = 1 + Len(arg)

\* The iterations of the call that found a pivot: det leaves a non-zero
\* diagonal entry exactly there, ref a non-zero row.
PivotsFound ==
    IF op = "det"
    THEN Cardinality({i \in 1..Len(new) : i <= Len(new[i]) /\ new[i][i] # Zero})
    ELSE Cardinality({i \in 1..Len(new) : Leading(new[i]) # 0})

(* C9 as amended.  At verbose level 1, det and ref print "Initial: ", the  *)
(* initial snapshot, and then one snapshot for every outer iteration that  *)
(* found a pivot, and none for an iteration that found no pivot.           *)
SnapshotPerPivot ==
    (verbose = 1 /\ op \in {"det", "ref"}) =>
        /\ out[1] = Label
        /\ out[2] = Snapshot(arg)
        /\ \A x \in 2..Len(out) : out[x].kind = "snap"
        /\ Len(Snaps(out)) = 1 + PivotsFound
        /\ (err = "none" /\ PivotsFound > 0) => out[Len(out)] = Snapshot(new)

\* ref at level 1 of a three-row matrix with an iteration that found no pivot.
SnapshotWitness ==
    verbose = 1 /\ op = "ref" /\ Len(arg) = 3 /\ PivotsFound = 2 /\ Len(out) = 4

(* C10 as stated.  The level-2 output of a call holds every snapshot of    *)
(* the level-1 output of the same call, in order.                          *)
Level2Additive ==
    (Called /\ verbose = 2) => IsSubseq(Snaps(Run(op, arg, 1).out), Snaps(out))

(* C10 as amended.  The level-2 output is "Initial: ", the initial         *)
(* snapshot, and then, for each swap, scale and combination that changed   *)
(* the working matrix, in order, its line followed by a snapshot; the      *)
(* snapshot at the end of an iteration is printed at level 1 only.  Every  *)
(* matrix that level 1 prints is among those that level 2 prints.          *)
Level2Trace ==
    (Called /\ verbose = 2) =>
        /\ Len(out) = 2 + 2 * Len(ops)
        /\ out[1] = Label
        /\ out[2] = Snapshot(arg)
        /\ \A x \in 1..Len(ops) :
              /\ out[2 * x + 1].kind = ops[x].kind
              /\ out[2 * x + 1].a = ops[x].a
              /\ out[2 * x + 1].b = ops[x].b
              /\ out[2 * x + 2].kind = "snap"
        /\ (ops # <<>>) => out[Len(out)] = Snapshot(new)
        /\ Range(Snaps(Run(op, arg, 1).out)) \subseteq Range(Snaps(out))

\* A level-2 call that printed a swap, a scale and a combination.
Level2Witness ==
    /\ Called /\ verbose = 2 /\ Len(arg) = 3
    /\ \E x \in 1..Len(out) : out[x].kind = "swap"
    /\ \E x \in 1..Len(out) : out[x].kind = "scale"
    /\ \E x \in 1..Len(out) : out[x].kind = "comb"

=============================================================================
